---- MODULE Spec2Model ----
(***************************************************************************)
(* sphinxext-photofinish: the responsive-variant planner of visit_image    *)
(* (photofinish.py) and the svg -> png conversion chain of svg_to_png      *)
(* (photofinish/svgtopng.py).                                              *)
(*                                                                         *)
(*   Spec     one Sphinx build: visit_image once per image node, then      *)
(*            process_images.                                              *)
(*   SpecSvg  calls of svg_to_png, one step per conversion attempt.        *)
(***************************************************************************)
EXTENDS Integers, Sequences, FiniteSets, TLC

VARIABLES
    config,       \* app.config: width_min, max_viewport_width, width_step
    img_datas,    \* the Set[ImgData] shared by visit_image and process_images
    node,         \* the image node of the last visit_image call
    body,         \* translator.body[-1] after the last visit_image call
    raised,       \* the exception that left the last visit_image call
    visits,       \* number of visit_image calls of this build
    revisit,      \* the last visit_image call was for the source of the one before
    pc,           \* svg_to_png: position in the chain of attempts
    args,         \* svg_to_png: the caller-supplied tool paths
    attempts,     \* svg_to_png: what each attempt of the call did, in order
    log,          \* svg_to_png: the local list `log`
    a_command_exists, \* svg_to_png: manage.a_command_exists
    result,       \* svg_to_png: how the call ended
    err_text,     \* svg_to_png: the lines of the raised error's message
    SPHINX_FOUND,
    SPHINX_INKSCAPE_CONVERTER_BIN,
    SPHINX_RSVG_CONVERTER_BIN,
    sphinx_app,   \* what get_sphinx() finds: None or the app's config values
    lookups,      \* number of get_sphinx() calls that found the application
    calls,        \* number of svg_to_png calls of this process
    doc_nodes,    \* number of image nodes of the document being written
    files,        \* the files process_image has written to the image directory
    proc,         \* process_images: not called, in its loop, returned or raised
    processed,    \* process_images: the ImgData its loop has taken so far
    failed,       \* process_images: the ImgData whose process_image call raised
    src_vi,       \* the niVI chunk data of each png source of img_datas
    tpc,          \* concurrent svg_to_png calls: each thread's position
    tloc          \* concurrent svg_to_png calls: each thread's local values

planVars == <<config, img_datas, node, body, raised, visits, revisit>>
cacheVars == <<SPHINX_FOUND, SPHINX_INKSCAPE_CONVERTER_BIN, SPHINX_RSVG_CONVERTER_BIN>>
callVars == <<pc, args, attempts, log, a_command_exists, result, err_text>>
vars == <<config, img_datas, node, body, raised, visits, revisit, pc, args, attempts, log,
          a_command_exists, result, err_text, SPHINX_FOUND,
          SPHINX_INKSCAPE_CONVERTER_BIN, SPHINX_RSVG_CONVERTER_BIN, sphinx_app, lookups,
          calls, doc_nodes, files, proc, processed, failed, src_vi, tpc, tloc>>
renderVars == <<files, proc, processed, failed, src_vi>>
threadVars == <<tpc, tloc>>

None == "None"

(***************************************************************************)
(* Bounds of the model.                                                    *)
(***************************************************************************)
MaxW == 4          \* native widths 1..MaxW
MaxH == 2          \* native heights 1..MaxH
MaxMin == 1        \* width_min in 0..MaxMin
MaxMvw == 1        \* max_viewport_width in 0..MaxMvw
MaxStep == 2       \* width_step in -1..MaxStep
MaxVisits == 1     \* visit_image calls per build
MaxCalls == 2      \* svg_to_png calls per process

(***************************************************************************)
(* Program constants.                                                      *)
(***************************************************************************)
DefaultMaxViewportWidth == 1000
DefaultWidthMin == 500
DefaultWidthStep == 300
DefaultSvgWidth == 1000

(***************************************************************************)
(* Arithmetic of the Python operators the planner uses.                    *)
(***************************************************************************)
Min(a, b) == IF a <= b THEN a ELSE b

\* a // b for b > 0: Python's floor division
FloorDiv(a, b) == a \div b

\* len(range(start, stop, step)), step # 0
RangeLen(start, stop, step) ==
    IF step > 0
    THEN IF stop > start THEN (stop - start + step - 1) \div step ELSE 0
    ELSE IF start > stop THEN (start - stop + (-step) - 1) \div (-step) ELSE 0

\* list(range(start, stop, step)), step # 0
PyRange(start, stop, step) ==
    [i \in 1..RangeLen(start, stop, step) |-> start + (i - 1) * step]

(***************************************************************************)
(* Inputs: the configuration of conf.py and the image nodes of a document. *)
(***************************************************************************)
\* setup(): the defaults of the three configuration values
DefaultConfig ==
    [width_min |-> DefaultWidthMin,
     max_viewport_width |-> DefaultMaxViewportWidth,
     width_step |-> DefaultWidthStep]

\* a configuration with a small minimum, under which an image 1000 wide gets
\* the widths 100, 400, 700, 1000
SmallMinConfig == [DefaultConfig EXCEPT !.width_min = 100]

Configs ==
    [width_min : 0..MaxMin, max_viewport_width : 0..MaxMvw,
     width_step : (-1)..MaxStep]
    \cup {DefaultConfig, SmallMinConfig}

RasterExts == {".png", ".jpg"}

\* native sizes Image.open(...).size reports: small ones, and some of the
\* magnitude of the default configuration
NativeSizes ==
    ((1..MaxW) \X (1..MaxH)) \cup {<<1000, 750>>, <<800, 600>>, <<2150, 1>>}

\* the <img> attributes old_visit_image may have written
AttrChoices == {None, "set"}

Nodes ==
    [remote : {FALSE}, ext : RasterExts, size : NativeSizes,
     width : AttrChoices, height : AttrChoices]
    \cup [remote : {FALSE}, ext : {".svg", ".gif"}, size : {<<1, 1>>},
          width : AttrChoices, height : {None}]
    \cup [remote : {TRUE}, ext : {".png"}, size : {<<1, 1>>},
          width : {None}, height : {None}]

\* img_uri_path.stem / img_src_path.stem: the file's name stands for its content
Stem(n) == n.size

(***************************************************************************)
(* visit_image: the width list of one destination format.                  *)
(***************************************************************************)
\* mutants of SnapsToNative: the last width is never snapped; a strict comparison
SnapsNever(im_width, last, width_step) == FALSE

SnapsStrict(im_width, last, width_step) == 2 * (im_width - last) < width_step

\* im_width - widths[-1] <= width_step / 2   (true division)
SnapsToNative(im_width, last, width_step) == 2 * (im_width - last) <= width_step

\* mutant of GeneratedWidths: the range is not capped by the native width
GeneratedWidthsUncapped(im_width, width_min, width_max, width_step) ==
    LET r == PyRange(width_min, width_max + 1, width_step)
    IN IF r = <<>> THEN <<im_width>> ELSE r

\* widths = list(range(...)); if not widths: widths = [im_width]
GeneratedWidths(im_width, width_min, width_max, width_step) ==
    LET r == PyRange(width_min, Min(width_max, im_width) + 1, width_step)
    IN IF r = <<>> THEN <<im_width>> ELSE r

\* lines 176-187, width_step # 0
PlanWidths(im_width, cfg) ==
    LET width_min == cfg.width_min
        width_max == 2 * cfg.max_viewport_width
        width_step == cfg.width_step
        widths == GeneratedWidths(im_width, width_min, width_max, width_step)
    IN IF SnapsToNative(im_width, widths[Len(widths)], width_step)
       THEN [widths EXCEPT ![Len(widths)] = im_width]
       ELSE Append(widths, im_width)

\* round(a / b) for b > 0, as Python rounds: to nearest, ties to even
RoundDiv(a, b) ==
    LET q == a \div b
        r == a % b
    IN IF 2 * r < b THEN q
       ELSE IF 2 * r > b THEN q + 1
       ELSE IF q % 2 = 0 THEN q ELSE q + 1

\* mutant of VariantHeight: the height is rounded to nearest
VariantHeightRounded(w, im_width, im_height) == RoundDiv(w * im_height, im_width)

\* h = w * im_height // im_width
VariantHeight(w, im_width, im_height) == FloorDiv(w * im_height, im_width)

\* new_img_name: "<stem><ext>" for the full size, "<stem>-<w><ext>" otherwise
NewImgName(stem, w, im_width, dest_ext) ==
    [stem |-> stem, w |-> IF w = im_width THEN <<>> ELSE <<w>>, ext |-> dest_ext]

\* mutant of MkImgData: ImgData compared by identity (eq=False), so that every
\* call of visit_image makes new elements
MkImgDataByIdentity(n, w, dest_ext) ==
    [src_path |-> [stem |-> Stem(n), ext |-> n.ext],
     dest_path |-> NewImgName(Stem(n), w, n.size[1], dest_ext),
     width |-> w,
     height |-> (w * n.size[2]) \div n.size[1],
     object |-> visits]

\* ImgData(src_path, dest_path, width, height) of line 207
MkImgData(n, w, dest_ext) ==
    [src_path |-> [stem |-> Stem(n), ext |-> n.ext],
     dest_path |-> NewImgName(Stem(n), w, n.size[1], dest_ext),
     width |-> w,
     height |-> VariantHeight(w, n.size[1], n.size[2])]

\* the ImgData added for one destination format (lines 189-209)
VariantsFor(n, cfg, dest_ext) ==
    LET widths == PlanWidths(n.size[1], cfg)
    IN {MkImgData(n, widths[i], dest_ext) : i \in 1..Len(widths)}

\* srcset_srcs (line 211): one "<uri> <w>w" per width, in order
Srcset(n, cfg, dest_ext) ==
    LET widths == PlanWidths(n.size[1], cfg)
    IN [i \in 1..Len(widths) |->
          [uri |-> NewImgName(Stem(n), widths[i], n.size[1], dest_ext), w |-> widths[i]]]

\* sizes (lines 230-235); the height branch multiplies a str and raises
Sizes(n, cfg) ==
    IF n.width # None THEN <<"min(", n.width, "px, 100vw)">>
    ELSE <<"min(min(", n.size[1], "px, 100vw), ", cfg.max_viewport_width, "px)">>

\* dest_exts (line 168)
DestExts(n) == <<".webp", n.ext>>

\* mimetypes.types_map
MimeType(ext) == IF ext = ".webp" THEN "image/webp" ELSE "image/other"

\* the tag old_visit_image leaves in translator.body[-1]
OldImgTag(n) ==
    [tag |-> "img", width |-> n.width, height |-> n.height, loading |-> None,
     decoding |-> None, srcset |-> None, sizes |-> None]

\* soup_img after lines 107-126
SoupImg(n) ==
    LET t == OldImgTag(n)
    IN [t EXCEPT !.width = None, !.height = None,
                 !.loading = IF t.loading = None THEN "lazy" ELSE t.loading,
                 !.decoding = IF t.decoding = None THEN "async" ELSE t.decoding]

Picture(n, sources, img) ==
    [tag |-> "picture", width |-> n.width, height |-> n.height,
     sources |-> sources, img |-> img]

(***************************************************************************)
(* visit_image, one action per branch of the handler.                      *)
(***************************************************************************)
\* What the svg_to_png call of line 138 leaves behind: its result and the
\* host-configuration cache (SpecSvg has the call itself, attempt by attempt).
SvgCallOutcomes ==
    LET kept == [found |-> SPHINX_FOUND, ink |-> SPHINX_INKSCAPE_CONVERTER_BIN,
                 rsvg |-> SPHINX_RSVG_CONVERTER_BIN]
        looked == IF SPHINX_FOUND \/ ~sphinx_app.present THEN kept
                  ELSE [found |-> TRUE, ink |-> sphinx_app.inkscape_converter_bin,
                        rsvg |-> sphinx_app.rsvg_converter_bin]
    IN  {[res |-> "ok", cache |-> c] : c \in {kept, looked}}
        \cup {[res |-> r, cache |-> looked] : r \in {"NoToolError", "FailedConversionError"}}

\* new_visit_image is called for the next image node: the document has one
\* left, no exception has ended the write phase, and copy_image_files is not due
CanVisit == visits < doc_nodes /\ raised = "none" /\ proc = "idle"

\* node n is the image file the previous call was for
SameSource(n) ==
    visits >= 1 /\ ~n.remote /\ ~node.remote /\ n.ext = node.ext /\ n.size = node.size

\* lines 86-93: a remote image or an extension that is not handled
VisitSkipped(n) ==
    /\ CanVisit
    /\ n.remote \/ n.ext \notin {".png", ".jpg", ".jpeg", ".svg"}
    /\ node' = n
    /\ body' = OldImgTag(n)
    /\ raised' = "none"
    /\ visits' = visits + 1
    /\ revisit' = SameSource(n)
    /\ UNCHANGED <<config, img_datas, callVars, cacheVars, sphinx_app, lookups, calls,
                   doc_nodes, renderVars, threadVars>>

\* lines 134-155: an svg gets its size from a temporary png, or none at all
VisitSvg(n) ==
    /\ CanVisit
    /\ ~n.remote /\ n.ext = ".svg"
    /\ \E o \in SvgCallOutcomes, im_size \in {DefaultSvgWidth} \X (1..MaxH) :
          /\ SPHINX_FOUND' = o.cache.found
          /\ SPHINX_INKSCAPE_CONVERTER_BIN' = o.cache.ink
          /\ SPHINX_RSVG_CONVERTER_BIN' = o.cache.rsvg
          /\ body' = Picture(n, <<>>,
                        IF o.res = "ok"
                        THEN [SoupImg(n) EXCEPT !.width = im_size[1], !.height = im_size[2]]
                        ELSE SoupImg(n))
    /\ node' = n
    /\ raised' = "none"
    /\ visits' = visits + 1
    /\ revisit' = SameSource(n)
    /\ UNCHANGED <<config, img_datas, callVars, sphinx_app, lookups, calls,
                   doc_nodes, renderVars, threadVars>>

\* lines 157-254 with width_step = 0: range() raises ValueError at line 179
VisitRasterZeroStep(n) ==
    /\ CanVisit
    /\ ~n.remote /\ n.ext \in RasterExts
    /\ config.width_step = 0
    /\ node' = n
    /\ body' = OldImgTag(n)
    /\ raised' = "ValueError"
    /\ visits' = visits + 1
    /\ revisit' = SameSource(n)
    /\ UNCHANGED <<config, img_datas, callVars, cacheVars, sphinx_app, lookups, calls,
                   doc_nodes, renderVars, threadVars>>

\* lines 157-254 with only a height on the tag: line 233 raises TypeError
\* (str * int // int) in the first pass of the loop, after its ImgData were added
VisitRasterHeightOnly(n) ==
    /\ CanVisit
    /\ ~n.remote /\ n.ext \in RasterExts
    /\ config.width_step # 0
    /\ n.width = None /\ n.height # None
    /\ node' = n
    /\ img_datas' = img_datas \cup VariantsFor(n, config, DestExts(n)[1])
    /\ body' = OldImgTag(n)
    /\ raised' = "TypeError"
    /\ visits' = visits + 1
    /\ revisit' = SameSource(n)
    /\ UNCHANGED <<config, callVars, cacheVars, sphinx_app, lookups, calls,
                   doc_nodes, renderVars, threadVars>>

\* lines 157-254: both passes of the loop, then the <picture> replaces the <img>
VisitRaster(n) ==
    /\ CanVisit
    /\ ~n.remote /\ n.ext \in RasterExts
    /\ config.width_step # 0
    /\ n.width # None \/ n.height = None
    /\ node' = n
    /\ img_datas' = img_datas \cup VariantsFor(n, config, DestExts(n)[1])
                              \cup VariantsFor(n, config, DestExts(n)[2])
    /\ body' = Picture(n,
                  <<[type |-> MimeType(DestExts(n)[1]),
                     srcset |-> Srcset(n, config, DestExts(n)[1]),
                     sizes |-> Sizes(n, config)]>>,
                  [SoupImg(n) EXCEPT !.width = n.size[1], !.height = n.size[2],
                                     !.srcset = Srcset(n, config, DestExts(n)[2]),
                                     !.sizes = Sizes(n, config)])
    /\ raised' = "none"
    /\ visits' = visits + 1
    /\ revisit' = SameSource(n)
    /\ UNCHANGED <<config, callVars, cacheVars, sphinx_app, lookups, calls,
                   doc_nodes, renderVars, threadVars>>

(***************************************************************************)
(* The build: configuration from setup() and conf.py, then the visits.     *)
(***************************************************************************)
\* what get_sphinx() returns: no application, or one with these two config values
NoApp == [present |-> FALSE, inkscape_converter_bin |-> None, rsvg_converter_bin |-> None]
SphinxApps ==
    {NoApp} \cup [present : {TRUE}, inkscape_converter_bin : {None, "/bad", "/good"},
                  rsvg_converter_bin : {None, "/bad", "/good"}]

InitCall ==
    /\ pc = "idle"
    /\ args = [inkscape_path |-> None, rsvg_convert_path |-> None,
               svgexport_path |-> None, imagemagick_path |-> None]
    /\ attempts = <<>>
    /\ log = <<>>
    /\ a_command_exists = FALSE
    /\ result = "none"
    /\ err_text = <<>>
    /\ SPHINX_FOUND = FALSE
    /\ SPHINX_INKSCAPE_CONVERTER_BIN = None
    /\ SPHINX_RSVG_CONVERTER_BIN = None
    /\ lookups = 0
    /\ calls = 0

\* nothing rendered, process_images not called, no concurrent call
InitRest ==
    /\ files = {}
    /\ proc = "idle"
    /\ processed = {}
    /\ failed = {}
    /\ src_vi = <<>>
    /\ tpc = <<>>
    /\ tloc = <<>>

InitPlan ==
    /\ img_datas = {}
    /\ node = [remote |-> FALSE, ext |-> "", size |-> <<1, 1>>, width |-> None, height |-> None]
    /\ body = [tag |-> "none"]
    /\ raised = "none"
    /\ visits = 0
    /\ revisit = FALSE

Init ==
    /\ config \in Configs
    /\ doc_nodes = MaxVisits
    /\ InitPlan
    /\ InitCall
    /\ InitRest
    /\ sphinx_app = [present |-> TRUE, inkscape_converter_bin |-> None,
                     rsvg_converter_bin |-> None]

Next ==
    \E n \in Nodes :
        \/ VisitSkipped(n)
        \/ VisitSvg(n)
        \/ VisitRasterZeroStep(n)
        \/ VisitRasterHeightOnly(n)
        \/ VisitRaster(n)

Spec == Init /\ [][Next]_vars

(***************************************************************************)
(* A document with several image nodes, some of them for the same file.    *)
(***************************************************************************)
MaxDocNodes == 2   \* image nodes per document

BuildNodes ==
    [remote : {FALSE}, ext : RasterExts, size : {<<2, 2>>, <<3, 1>>},
     width : AttrChoices, height : AttrChoices]
    \cup [remote : {FALSE}, ext : {".svg", ".gif"}, size : {<<1, 1>>},
          width : {None}, height : {None}]
    \cup [remote : {TRUE}, ext : {".png"}, size : {<<1, 1>>},
          width : {None}, height : {None}]

InitBuild ==
    /\ config \in Configs
    /\ doc_nodes \in 1..MaxDocNodes
    /\ InitPlan
    /\ InitCall
    /\ InitRest
    /\ sphinx_app = [present |-> TRUE, inkscape_converter_bin |-> None,
                     rsvg_converter_bin |-> None]

NextBuild ==
    \E n \in BuildNodes :
        \/ VisitSkipped(n)
        \/ VisitSvg(n)
        \/ VisitRasterZeroStep(n)
        \/ VisitRasterHeightOnly(n)
        \/ VisitRaster(n)

SpecBuild == InitBuild /\ [][NextBuild]_vars

(***************************************************************************)
(* process_images and process_image: the variants are rendered when the    *)
(* builder copies the image files, after the documents are written.        *)
(***************************************************************************)
\* what get_vi_snippet_data returns for a png: None (no niVI chunk), the data of
\* a chunk of length zero, or data of some length
Payloads == {None, "empty", "data"}

\* mutant of Truthy: the test is "is not None"
TruthyNotNone(vi_snippet_data) == vi_snippet_data # None

\* line 311, "if vi_snippet_data:": bytes are true when their length is not zero
Truthy(vi_snippet_data) == vi_snippet_data = "data"

\* the png sources of the variant set
PngSources == {d.src_path : d \in {e \in img_datas : e.src_path.ext = ".png"}}

\* lines 308-310: the chunk data of the source, looked up for png sources only
ViSnippetData(d) == IF d.src_path.ext = ".png" THEN src_vi[d.src_path] ELSE None

\* lines 311-316: the private chunks handed to save() through pnginfo
PngInfo(vi_snippet_data) ==
    IF Truthy(vi_snippet_data)
    THEN {[type |-> "niVI", data |-> vi_snippet_data, after_idat |-> TRUE]}
    ELSE {}

\* lines 318-320: the file save() writes
SavedFile(d) ==
    [path |-> d.dest_path, width |-> d.width, height |-> d.height,
     chunks |-> PngInfo(ViSnippetData(d))]

\* the configurations and image nodes of the one-image builds that are rendered
TinyConfig == [width_min |-> 1, max_viewport_width |-> 1, width_step |-> 1]

RenderConfigs ==
    {DefaultConfig, SmallMinConfig, TinyConfig, [DefaultConfig EXCEPT !.width_step = 0]}

RenderNodes ==
    [remote : {FALSE}, ext : RasterExts, size : {<<2, 2>>, <<3, 1>>, <<1000, 750>>},
     width : AttrChoices, height : AttrChoices]
    \cup [remote : {FALSE}, ext : {".svg", ".gif"}, size : {<<1, 1>>},
          width : {None}, height : {None}]

\* new_copy_image_files (lines 349-351): old_copy_image_files has copied the
\* sources, process_images is entered; the chunks of the png sources are what
\* the files on disk hold
StartProcess ==
    /\ proc = "idle"
    /\ raised = "none"
    /\ visits = doc_nodes
    /\ proc' = "running"
    /\ src_vi' \in [PngSources -> Payloads]
    /\ UNCHANGED <<planVars, callVars, cacheVars, sphinx_app, lookups, calls,
                   doc_nodes, files, processed, failed, threadVars>>

\* one pass of the loop of process_images (lines 261-268) over the set, in any
\* order: process_image(d) returns early, raises or writes its file.  err is the
\* failure of the imaging library, if any: opening the source, or saving.
ProcessImage(d, err) ==
    /\ proc = "running"
    /\ d \in img_datas \ processed
    /\ processed' = processed \cup {d}
    /\ IF err = "decode"
       THEN /\ proc' = "raised"
            /\ failed' = failed \cup {d}
            /\ files' = files
       ELSE IF Truthy(ViSnippetData(d)) /\ d.dest_path.ext # ".png"
       THEN UNCHANGED <<proc, failed, files>>
       ELSE IF d.width < 1 \/ d.height < 1 \/ err = "encode"
       THEN /\ proc' = "raised"
            /\ failed' = failed \cup {d}
            /\ files' = files
       ELSE /\ files' = {f \in files : f.path # d.dest_path} \cup {SavedFile(d)}
            /\ UNCHANGED <<proc, failed>>
    /\ UNCHANGED <<planVars, callVars, cacheVars, sphinx_app, lookups, calls,
                   doc_nodes, src_vi, threadVars>>

\* the loop of process_images has taken every element: process_images returns
FinishProcess ==
    /\ proc = "running"
    /\ processed = img_datas
    /\ proc' = "done"
    /\ UNCHANGED <<planVars, callVars, cacheVars, sphinx_app, lookups, calls,
                   doc_nodes, files, processed, failed, src_vi, threadVars>>

\* every ImgData visit_image can make of these nodes and configurations
RenderImgDatas ==
    UNION {VariantsFor(n, cfg, DestExts(n)[i]) :
              n \in {m \in RenderNodes : m.ext \in RasterExts},
              cfg \in {c \in RenderConfigs : c.width_step # 0},
              i \in {1, 2}}

InitRender ==
    /\ config \in RenderConfigs
    /\ doc_nodes = 1
    /\ InitPlan
    /\ InitCall
    /\ InitRest
    /\ sphinx_app = [present |-> TRUE, inkscape_converter_bin |-> None,
                     rsvg_converter_bin |-> None]

NextRender ==
    \/ \E n \in RenderNodes :
          \/ VisitSkipped(n)
          \/ VisitSvg(n)
          \/ VisitRasterZeroStep(n)
          \/ VisitRasterHeightOnly(n)
          \/ VisitRaster(n)
    \/ StartProcess
    \/ \E d \in RenderImgDatas, err \in {"none", "decode", "encode"} : ProcessImage(d, err)
    \/ FinishProcess

SpecRender == InitRender /\ [][NextRender]_vars

(***************************************************************************)
(* svg_to_png: the chain of conversion attempts.                           *)
(***************************************************************************)
\* mutant of Chain: svgexport and imagemagick in the order of the signature
ChainSignatureOrder ==
    << [kind |-> "user", title |-> "Inkscape", name |-> "inkscape_path"],
       [kind |-> "user", title |-> "rsvg-convert", name |-> "rsvg_convert_path"],
       [kind |-> "user", title |-> "imagemagick", name |-> "imagemagick_path"],
       [kind |-> "user", title |-> "svgexport", name |-> "svgexport_path"],
       [kind |-> "lib", title |-> "cairosvg", name |-> "cairosvg"],
       [kind |-> "lib", title |-> "svglib", name |-> "svglib"],
       [kind |-> "system", title |-> "Inkscape", name |-> "inkscape", path |-> "inkscape"],
       [kind |-> "system", title |-> "rsvg-convert", name |-> "rsvg-convert",
        path |-> "rsvg-convert"],
       [kind |-> "system", title |-> "rsvg-convert", name |-> "rsvg-convert", path |-> "rsvg"],
       [kind |-> "system", title |-> "svgexport", name |-> "svgexport", path |-> "svgexport"],
       [kind |-> "system", title |-> "imagemagick", name |-> "imagemagick", path |-> "magick"],
       [kind |-> "system", title |-> "imagemagick", name |-> "imagemagick", path |-> "convert"],
       [kind |-> "sphinx", title |-> "Inkscape", name |-> "inkscape_converter_bin"],
       [kind |-> "sphinx", title |-> "rsvg-convert", name |-> "rsvg_converter_bin"] >>

\* the `with manage(...)` blocks of lines 198-331, in program order: the title
\* given to manage, the name the exceptions carry, the path a system attempt probes
Chain ==
    << [kind |-> "user", title |-> "Inkscape", name |-> "inkscape_path"],
       [kind |-> "user", title |-> "rsvg-convert", name |-> "rsvg_convert_path"],
       [kind |-> "user", title |-> "svgexport", name |-> "svgexport_path"],
       [kind |-> "user", title |-> "imagemagick", name |-> "imagemagick_path"],
       [kind |-> "lib", title |-> "cairosvg", name |-> "cairosvg"],
       [kind |-> "lib", title |-> "svglib", name |-> "svglib"],
       [kind |-> "system", title |-> "Inkscape", name |-> "inkscape", path |-> "inkscape"],
       [kind |-> "system", title |-> "rsvg-convert", name |-> "rsvg-convert",
        path |-> "rsvg-convert"],
       [kind |-> "system", title |-> "rsvg-convert", name |-> "rsvg-convert", path |-> "rsvg"],
       [kind |-> "system", title |-> "svgexport", name |-> "svgexport", path |-> "svgexport"],
       [kind |-> "system", title |-> "imagemagick", name |-> "imagemagick", path |-> "magick"],
       [kind |-> "system", title |-> "imagemagick", name |-> "imagemagick", path |-> "convert"],
       [kind |-> "sphinx", title |-> "Inkscape", name |-> "inkscape_converter_bin"],
       [kind |-> "sphinx", title |-> "rsvg-convert", name |-> "rsvg_converter_bin"] >>

\* the keyword arguments of svg_to_png: None, or a path that which() resolves or not
PathChoices == {None, "/bad", "/good"}
AllArgSets ==
    [inkscape_path : PathChoices, rsvg_convert_path : PathChoices,
     svgexport_path : PathChoices, imagemagick_path : PathChoices]

\* the calls explored: no path or one path passed, or the same path for every tool
ArgSets ==
    {a \in AllArgSets :
        \/ \A f, g \in DOMAIN a : f # g => (a[f] = None \/ a[g] = None)
        \/ \A f, g \in DOMAIN a : a[f] = a[g]}

\* which(path) for a caller- or host-supplied path
Which(path) == path = "/good"

\* `if not path`: None and the empty string count as not set
IsSet(path) == path # None /\ path # ""

\* the index of the block the call is about to enter
Cur == Len(attempts) + 1

\* mutant of ManageLog: nothing is logged for a path that is not set
ManageLogQuietNotSet(title, outcome, name, path, val) ==
    IF outcome = "NotFound"
    THEN << <<"    - ", title, ": ", name, " not found">>, <<"        for path ", path>> >>
    ELSE IF outcome = "ImportError"
    THEN << <<"    - ", title, ": ", "dependency not installed">>, <<"        ", val>> >>
    ELSE IF outcome = "Failed"
    THEN << <<"    - ", title, ": ", "conversion failed">>, <<"        ", val>> >>
    ELSE <<>>

\* manage.__exit__ (lines 178-196): the lines appended to log
ManageLog(title, outcome, name, path, val) ==
    IF outcome = "NotSet"
    THEN << <<"    - ", title, ": ", name, " not set">> >>
    ELSE IF outcome = "NotFound"
    THEN << <<"    - ", title, ": ", name, " not found">>, <<"        for path ", path>> >>
    ELSE IF outcome = "ImportError"
    THEN << <<"    - ", title, ": ", "dependency not installed">>, <<"        ", val>> >>
    ELSE IF outcome = "Failed"
    THEN << <<"    - ", title, ": ", "conversion failed">>, <<"        ", val>> >>
    ELSE <<>>

\* mutant of ManageCommandExists: a path that is set but not found counts as a tool
ManageCommandExistsIfSet(before, outcome) ==
    before \/ outcome \in {"NotFound", "Failed", "Succeeded"}

\* manage.__exit__ (lines 188-189): manage.a_command_exists after the block
ManageCommandExists(before, outcome) ==
    before \/ outcome \in {"Failed", "Succeeded"}

\* mutant of AfterBlock: the `return` that ends a successful block is missing
AfterBlockNoReturn(i, outcome) ==
    IF i = Len(Chain) THEN "raise"
    ELSE IF Chain[i].kind # "sphinx" /\ Chain[i + 1].kind = "sphinx" THEN "lookup"
    ELSE "attempt"

\* where control goes after block i: `return` on success, else the next block,
\* the Sphinx detection of line 305 or the error of line 333
AfterBlock(i, outcome) ==
    IF outcome = "Succeeded" THEN "done"
    ELSE IF i = Len(Chain) THEN "raise"
    ELSE IF Chain[i].kind # "sphinx" /\ Chain[i + 1].kind = "sphinx" THEN "lookup"
    ELSE "attempt"

\* one `with manage(title)` block that ended with `outcome`
Block(outcome, name, path, val) ==
    /\ attempts' = Append(attempts,
                     [kind |-> Chain[Cur].kind, title |-> Chain[Cur].title,
                      path |-> path, outcome |-> outcome, val |-> val])
    /\ log' = log \o ManageLog(Chain[Cur].title, outcome, name, path, val)
    /\ a_command_exists' = ManageCommandExists(a_command_exists, outcome)
    /\ pc' = AfterBlock(Cur, outcome)
    /\ result' = IF outcome = "Succeeded" THEN "ok" ELSE result
    /\ UNCHANGED <<planVars, doc_nodes, renderVars, threadVars, args, err_text,
                   cacheVars, sphinx_app, lookups, calls>>

\* the outcomes of subprocess.run(..., check=True) or of a library's conversion
RunOutcomes == {"Succeeded", "Failed"}
RunVal(outcome) == IF outcome = "Failed" THEN "error detail" ELSE ""

\* svg_to_png is entered (lines 99-158)
Call(a) ==
    /\ pc \in {"idle", "done"}
    /\ calls < MaxCalls
    /\ calls' = calls + 1
    /\ args' = a
    /\ attempts' = <<>>
    /\ log' = <<>>
    /\ a_command_exists' = FALSE
    /\ result' = "none"
    /\ err_text' = <<>>
    /\ pc' = "attempt"
    /\ UNCHANGED <<planVars, doc_nodes, renderVars, threadVars, cacheVars, sphinx_app, lookups>>

\* lines 198-233: a tool whose path the caller passed
TryUser ==
    /\ pc = "attempt" /\ Chain[Cur].kind = "user"
    /\ LET path == args[Chain[Cur].name]
       IN IF ~IsSet(path) THEN Block("NotSet", Chain[Cur].name, path, "")
          ELSE IF ~Which(path) THEN Block("NotFound", Chain[Cur].name, path, "")
          ELSE \E o \in RunOutcomes : Block(o, Chain[Cur].name, path, RunVal(o))

\* lines 235-255: cairosvg, svglib
TryLib ==
    /\ pc = "attempt" /\ Chain[Cur].kind = "lib"
    /\ \/ Block("ImportError", Chain[Cur].name, Chain[Cur].name, "No module named")
       \/ \E o \in RunOutcomes : Block(o, Chain[Cur].name, Chain[Cur].name, RunVal(o))

\* lines 257-303: a binary looked up on PATH
TrySystem ==
    /\ pc = "attempt" /\ Chain[Cur].kind = "system"
    /\ \/ Block("NotFound", Chain[Cur].name, Chain[Cur].path, "")
       \/ \E o \in RunOutcomes : Block(o, Chain[Cur].name, Chain[Cur].path, RunVal(o))

\* mutant of NeedsLookup: the detection runs on every call
NeedsLookupAlways(found) == TRUE

\* line 306: `if not (SPHINX_FOUND)`
NeedsLookup(found) == ~found

\* lines 305-316: the host configuration is read unless it was found before
Lookup ==
    /\ pc = "lookup"
    /\ IF NeedsLookup(SPHINX_FOUND) /\ sphinx_app.present
       THEN /\ SPHINX_INKSCAPE_CONVERTER_BIN' = sphinx_app.inkscape_converter_bin
            /\ SPHINX_RSVG_CONVERTER_BIN' = sphinx_app.rsvg_converter_bin
            /\ SPHINX_FOUND' = TRUE
            /\ lookups' = lookups + 1
       ELSE UNCHANGED <<cacheVars, lookups>>
    /\ pc' = IF SPHINX_FOUND' THEN "attempt" ELSE "raise"
    /\ UNCHANGED <<planVars, doc_nodes, renderVars, threadVars, args, attempts, log,
                   a_command_exists, result, err_text,
                   sphinx_app, calls>>

\* lines 317-331: the tools of Sphinx's conf.py
TrySphinx ==
    /\ pc = "attempt" /\ Chain[Cur].kind = "sphinx"
    /\ LET path == IF Chain[Cur].title = "Inkscape" THEN SPHINX_INKSCAPE_CONVERTER_BIN
                   ELSE SPHINX_RSVG_CONVERTER_BIN
       IN IF ~IsSet(path)
          THEN Block("NotSet", <<Chain[Cur].name, " in Sphinx's conf.py">>, path, "")
          ELSE IF ~Which(path) THEN Block("NotFound", Chain[Cur].name, path, "")
          ELSE \E o \in RunOutcomes : Block(o, Chain[Cur].name, path, RunVal(o))

ErrHeader == <<"Failed to convert svg to png.">>
NoToolText == <<"No conversion tool was found. Please install one of: ...">>

\* lines 333-341: no block returned
Raise ==
    /\ pc = "raise"
    /\ IF ~a_command_exists
       THEN /\ result' = "NoToolError"
            /\ err_text' = <<ErrHeader, NoToolText>>
       ELSE /\ result' = "FailedConversionError"
            /\ err_text' = <<ErrHeader>> \o log
    /\ pc' = "done"
    /\ UNCHANGED <<planVars, doc_nodes, renderVars, threadVars, args, attempts, log,
                   a_command_exists, cacheVars,
                   sphinx_app, lookups, calls>>

InitSvg ==
    /\ config = DefaultConfig
    /\ doc_nodes = 0
    /\ InitPlan
    /\ InitCall
    /\ InitRest
    /\ sphinx_app \in SphinxApps

NextSvg ==
    \/ \E a \in ArgSets : Call(a)
    \/ TryUser
    \/ TryLib
    \/ TrySystem
    \/ Lookup
    \/ TrySphinx
    \/ Raise

SpecSvg == InitSvg /\ [][NextSvg]_vars

(***************************************************************************)
(* svg_to_png called from several threads: lines 305-331, one step per     *)
(* read or write of a module global.  Each thread has found no tool in the *)
(* blocks before line 305.                                                 *)
(***************************************************************************)
MaxThreads == 2    \* threads inside svg_to_png

\* mutant of LookupWrites: SPHINX_FOUND is set before the two paths
LookupWritesFoundFirst == <<"found", "ink", "rsvg">>

\* the order of the assignments of lines 309, 312 and 315
LookupWrites == <<"ink", "rsvg", "found">>

\* the threads that have entered
Threads == 1..Len(tpc)

\* a thread reaches line 305
ThreadEnter ==
    /\ Len(tpc) < MaxThreads
    /\ tpc' = Append(tpc, "check")
    /\ tloc' = Append(tloc, [w |-> 1, ink |-> "unread", rsvg |-> "unread"])
    /\ UNCHANGED <<planVars, callVars, cacheVars, sphinx_app, lookups, calls,
                   doc_nodes, renderVars>>

\* line 306: `if not (SPHINX_FOUND)`
ThreadCheck(t) ==
    /\ t \in Threads /\ tpc[t] = "check"
    /\ tpc' = [tpc EXCEPT ![t] = IF NeedsLookup(SPHINX_FOUND) THEN "get" ELSE "test"]
    /\ UNCHANGED <<planVars, callVars, cacheVars, sphinx_app, lookups, calls,
                   doc_nodes, renderVars, tloc>>

\* lines 307-308: sphinx_app = get_sphinx(); if sphinx_app
ThreadGet(t) ==
    /\ t \in Threads /\ tpc[t] = "get"
    /\ tpc' = [tpc EXCEPT ![t] = IF sphinx_app.present THEN "write" ELSE "test"]
    /\ UNCHANGED <<planVars, callVars, cacheVars, sphinx_app, lookups, calls,
                   doc_nodes, renderVars, tloc>>

\* lines 309-315: the next of the three assignments
ThreadWrite(t) ==
    /\ t \in Threads /\ tpc[t] = "write"
    /\ LET what == LookupWrites[tloc[t].w]
       IN /\ SPHINX_INKSCAPE_CONVERTER_BIN' =
                IF what = "ink" THEN sphinx_app.inkscape_converter_bin
                ELSE SPHINX_INKSCAPE_CONVERTER_BIN
          /\ SPHINX_RSVG_CONVERTER_BIN' =
                IF what = "rsvg" THEN sphinx_app.rsvg_converter_bin
                ELSE SPHINX_RSVG_CONVERTER_BIN
          /\ SPHINX_FOUND' = IF what = "found" THEN TRUE ELSE SPHINX_FOUND
    /\ tloc' = [tloc EXCEPT ![t].w = @ + 1]
    /\ IF tloc[t].w = Len(LookupWrites)
       THEN tpc' = [tpc EXCEPT ![t] = "test"] /\ lookups' = lookups + 1
       ELSE UNCHANGED <<tpc, lookups>>
    /\ UNCHANGED <<planVars, callVars, sphinx_app, calls, doc_nodes, renderVars>>

\* line 316: `if SPHINX_FOUND`
ThreadTest(t) ==
    /\ t \in Threads /\ tpc[t] = "test"
    /\ tpc' = [tpc EXCEPT ![t] = IF SPHINX_FOUND THEN "inkscape" ELSE "done"]
    /\ UNCHANGED <<planVars, callVars, cacheVars, sphinx_app, lookups, calls,
                   doc_nodes, renderVars, tloc>>

\* lines 317-323: the block reads SPHINX_INKSCAPE_CONVERTER_BIN and returns if
\* the tool ran
ThreadInkscape(t) ==
    /\ t \in Threads /\ tpc[t] = "inkscape"
    /\ tloc' = [tloc EXCEPT ![t].ink = SPHINX_INKSCAPE_CONVERTER_BIN]
    /\ \E o \in RunOutcomes :
          tpc' = [tpc EXCEPT ![t] =
                     IF IsSet(SPHINX_INKSCAPE_CONVERTER_BIN)
                        /\ Which(SPHINX_INKSCAPE_CONVERTER_BIN) /\ o = "Succeeded"
                     THEN "done" ELSE "rsvg"]
    /\ UNCHANGED <<planVars, callVars, cacheVars, sphinx_app, lookups, calls,
                   doc_nodes, renderVars>>

\* lines 325-331: the block reads SPHINX_RSVG_CONVERTER_BIN
ThreadRsvg(t) ==
    /\ t \in Threads /\ tpc[t] = "rsvg"
    /\ tloc' = [tloc EXCEPT ![t].rsvg = SPHINX_RSVG_CONVERTER_BIN]
    /\ tpc' = [tpc EXCEPT ![t] = "done"]
    /\ UNCHANGED <<planVars, callVars, cacheVars, sphinx_app, lookups, calls,
                   doc_nodes, renderVars>>

NextThreads ==
    \/ ThreadEnter
    \/ \E t \in 1..MaxThreads :
          \/ ThreadCheck(t)
          \/ ThreadGet(t)
          \/ ThreadWrite(t)
          \/ ThreadTest(t)
          \/ ThreadInkscape(t)
          \/ ThreadRsvg(t)

SpecThreads == InitSvg /\ [][NextThreads]_vars

(***************************************************************************)
(* Properties of the planner, read off the markup and the variant set a    *)
(* visit left behind.                                                      *)
(***************************************************************************)
\* the last visit planned a raster image and replaced its <img> by a <picture>
PlannedRaster == node.ext \in RasterExts /\ body.tag = "picture"

WidthsOf(srcset) == [i \in 1..Len(srcset) |-> srcset[i].w]

\* the width lists of the last visit, in the order of dest_exts
PlannedLists == <<WidthsOf(body.sources[1].srcset), WidthsOf(body.img.srcset)>>

StrictlyIncreasing(ws) == \A i \in 1..(Len(ws) - 1) : ws[i] < ws[i + 1]

NativeWidthOf(d) == d.src_path.stem[1]
NativeHeightOf(d) == d.src_path.stem[2]

\* C1: with width_step > 0 every planned width list is strictly increasing (so
\* without duplicates) and ends with the native width.
C1_IncreasingEndsNative ==
    (PlannedRaster /\ config.width_step > 0) =>
        \A k \in 1..2 :
            LET ws == PlannedLists[k]
            IN /\ Len(ws) >= 1
               /\ StrictlyIncreasing(ws)
               /\ \A i, j \in 1..Len(ws) : i # j => ws[i] # ws[j]
               /\ ws[Len(ws)] = node.size[1]

\* a list of three or more widths whose last generated width was snapped
C1_Witness ==
    /\ PlannedRaster /\ config.width_step > 0
    /\ Len(PlannedLists[1]) >= 3
    /\ node.size[1] > 2 * config.max_viewport_width

\* C2: with width_step > 0 no variant is wider than its source, every variant
\* that is not the full-size one lies in [width_min, min(2 * max_viewport_width,
\* native width)], and each width list holds the native width exactly once.
C2_WidthsInRange ==
    config.width_step > 0 =>
        /\ \A d \in img_datas :
              /\ d.width <= NativeWidthOf(d)
              /\ d.width # NativeWidthOf(d) =>
                    /\ config.width_min <= d.width
                    /\ d.width <= Min(2 * config.max_viewport_width, NativeWidthOf(d))
        /\ PlannedRaster =>
              \A k \in 1..2 :
                  Cardinality({i \in 1..Len(PlannedLists[k]) :
                                  PlannedLists[k][i] = node.size[1]}) = 1

\* a full-size variant above the configured maximum next to a smaller one
C2_Witness ==
    /\ config.width_step > 0 /\ PlannedRaster
    /\ \E d, e \in img_datas :
          /\ d.src_path = e.src_path /\ d.dest_path.ext = e.dest_path.ext
          /\ d.width = NativeWidthOf(d) /\ d.width > 2 * config.max_viewport_width
          /\ e.width < d.width

\* the algorithm of the planner's description, generated width by width
RECURSIVE RefGenerate(_, _, _)
RefGenerate(w, limit, step) ==
    IF w <= limit THEN <<w>> \o RefGenerate(w + step, limit, step) ELSE <<>>

RefPlan(nativeWidth, minWidth, maxWidth, step) ==
    LET g == RefGenerate(minWidth, Min(maxWidth, nativeWidth), step)
    IN IF g = <<>> THEN <<nativeWidth>>
       ELSE IF 2 * (nativeWidth - g[Len(g)]) <= step
            THEN SubSeq(g, 1, Len(g) - 1) \o <<nativeWidth>>
            ELSE g \o <<nativeWidth>>

\* C3: with width_step > 0 both planned width lists equal the reference
\* algorithm's; an image narrower than width_min gets exactly [native width].
C3_EqualsReference ==
    (PlannedRaster /\ config.width_step > 0) =>
        \A k \in 1..2 :
            /\ PlannedLists[k] = RefPlan(node.size[1], config.width_min,
                                         2 * config.max_viewport_width, config.width_step)
            /\ node.size[1] < config.width_min => PlannedLists[k] = <<node.size[1]>>

\* the example: native 1000, min 100, max 2000, step 300
C3_Witness ==
    /\ PlannedRaster
    /\ config = SmallMinConfig /\ node.size[1] = 1000
    /\ PlannedLists[2] = <<100, 400, 700, 1000>>

\* a width exactly step/2 below the native width is snapped, not kept
C3_WitnessSnap ==
    /\ PlannedRaster
    /\ config = DefaultConfig /\ node.size[1] = 2150
    /\ PlannedLists[1] = <<500, 800, 1100, 1400, 1700, 2150>>

\* C4 (as claimed): with width_step <= 0 a raster image gets no variant and no
\* responsive markup.
C4_NonPositiveStepRejected ==
    config.width_step <= 0 =>
        /\ img_datas = {}
        /\ node.ext \in RasterExts => body.tag # "picture"

\* C5 (as claimed): every variant's height is round(width * native height /
\* native width), and is the native height when the width is the native width.
C5_HeightRounded ==
    \A d \in img_datas :
        /\ d.height = RoundDiv(d.width * NativeHeightOf(d), NativeWidthOf(d))
        /\ d.width = NativeWidthOf(d) => d.height = NativeHeightOf(d)

\* C5 (amended): every variant's height is width * native height / native width
\* rounded down; it is the native height when the width is the native width and,
\* with width_step > 0, only then.
C5_HeightFloored ==
    \A d \in img_datas :
        /\ d.height * NativeWidthOf(d) <= d.width * NativeHeightOf(d)
        /\ d.width * NativeHeightOf(d) < (d.height + 1) * NativeWidthOf(d)
        /\ d.width = NativeWidthOf(d) => d.height = NativeHeightOf(d)
        /\ (config.width_step > 0 /\ d.height = NativeHeightOf(d)) =>
               d.width = NativeWidthOf(d)

\* a variant whose exact height has a fractional part of one half or more
C5_Witness ==
    \E d \in img_datas :
        /\ config.width_step > 0
        /\ d.width < NativeWidthOf(d)
        /\ 2 * ((d.width * NativeHeightOf(d)) % NativeWidthOf(d)) > NativeWidthOf(d)

(***************************************************************************)
(* Properties of the conversion chain, read off the attempts a call made   *)
(* and the error it raised.                                                *)
(***************************************************************************)
Succeeded(k) == attempts[k].outcome = "Succeeded"
Unavailable(k) == attempts[k].outcome \in {"NotSet", "NotFound", "ImportError"}
CallFailed == pc = "done" /\ result \in {"NoToolError", "FailedConversionError"}

\* C6: a call has at most one successful attempt, which is its last step: after
\* it the call has returned, and until the next call no attempt is added and
\* the host configuration is neither looked up nor written.
C6_StopsAtFirstSuccess ==
    /\ [](/\ Cardinality({k \in 1..Len(attempts) : Succeeded(k)}) <= 1
          /\ \A k \in 1..Len(attempts) :
                Succeeded(k) => k = Len(attempts) /\ pc = "done" /\ result = "ok")
    /\ [][((\E k \in 1..Len(attempts) : Succeeded(k)) /\ calls' = calls) =>
             (attempts' = attempts /\ lookups' = lookups /\ UNCHANGED cacheVars)]_vars

\* a call that succeeded at a system binary after earlier attempts failed
C6_Witness ==
    /\ pc = "done" /\ result = "ok"
    /\ Len(attempts) >= 2 /\ Len(attempts) < Len(Chain)
    /\ attempts[Len(attempts)].kind = "system"
    /\ \E k \in 1..Len(attempts) : attempts[k].outcome = "Failed"

\* the order of trials of the docstring: the kind of attempt and what it runs
ClaimedOrder ==
    << <<"user", "Inkscape", "inkscape_path">>,
       <<"user", "rsvg-convert", "rsvg_convert_path">>,
       <<"user", "svgexport", "svgexport_path">>,
       <<"user", "imagemagick", "imagemagick_path">>,
       <<"lib", "cairosvg", "cairosvg">>,
       <<"lib", "svglib", "svglib">>,
       <<"system", "Inkscape", "inkscape">>,
       <<"system", "rsvg-convert", "rsvg-convert">>,
       <<"system", "rsvg-convert", "rsvg">>,
       <<"system", "svgexport", "svgexport">>,
       <<"system", "imagemagick", "magick">>,
       <<"system", "imagemagick", "convert">>,
       <<"sphinx", "Inkscape", "inkscape_converter_bin">>,
       <<"sphinx", "rsvg-convert", "rsvg_converter_bin">> >>

\* C7: the k-th attempt of a call is the k-th trial of the claimed order, run on
\* the path that trial names, made only after every earlier one did not succeed;
\* the two host-configured trials are made only once the application was found.
C7_FixedOrder ==
    /\ Len(attempts) <= Len(ClaimedOrder)
    /\ \A k \in 1..Len(attempts) :
          /\ attempts[k].kind = ClaimedOrder[k][1]
          /\ attempts[k].title = ClaimedOrder[k][2]
          /\ attempts[k].kind = "user" => attempts[k].path = args[ClaimedOrder[k][3]]
          /\ attempts[k].kind \in {"lib", "system"} => attempts[k].path = ClaimedOrder[k][3]
          /\ attempts[k].kind = "sphinx" =>
                /\ SPHINX_FOUND
                /\ attempts[k].path = IF ClaimedOrder[k][2] = "Inkscape"
                                      THEN SPHINX_INKSCAPE_CONVERTER_BIN
                                      ELSE SPHINX_RSVG_CONVERTER_BIN
          /\ \A j \in 1..(k - 1) : ~Succeeded(j)

\* every trial was made, the caller's svgexport path among them, and none worked
C7_Witness ==
    /\ CallFailed
    /\ Len(attempts) = Len(ClaimedOrder)
    /\ args.svgexport_path = "/bad" /\ attempts[3].outcome = "NotFound"

\* what the error text says of an attempt that ended with `outcome`
ReasonOf(outcome) ==
    IF outcome = "NotSet" THEN " not set"
    ELSE IF outcome = "NotFound" THEN " not found"
    ELSE IF outcome = "ImportError" THEN "dependency not installed"
    ELSE "conversion failed"

IsEntry(line) == line[1] = "    - "
EntryLines(text) == SelectSeq(text, IsEntry)

\* the text has one entry per attempt, in attempt order, naming the tool and the
\* reason, with the path that was not found or the detail of the error
Enumerates(text, atts) ==
    LET e == EntryLines(text)
    IN /\ Len(e) = Len(atts)
       /\ \A k \in 1..Len(atts) :
             /\ e[k][2] = atts[k].title
             /\ e[k][Len(e[k])] = ReasonOf(atts[k].outcome)
             /\ atts[k].outcome = "NotFound" =>
                   \E i \in 1..Len(text) : text[i] = <<"        for path ", atts[k].path>>
             /\ atts[k].outcome \in {"ImportError", "Failed"} =>
                   \E i \in 1..Len(text) : text[i] = <<"        ", atts[k].val>>

\* C8: a failed call raises NoToolError exactly when every attempt ended not set,
\* not found or not installed, and FailedConversionError exactly when some tool
\* was run and each tool that was run failed; the latter's text holds the log.
C8_ErrorClass ==
    CallFailed =>
        /\ result = "NoToolError" <=> \A k \in 1..Len(attempts) : Unavailable(k)
        /\ result = "FailedConversionError" <=>
              /\ \E k \in 1..Len(attempts) : attempts[k].outcome = "Failed"
              /\ \A k \in 1..Len(attempts) : ~Unavailable(k) => attempts[k].outcome = "Failed"
        /\ result = "FailedConversionError" => Enumerates(err_text, attempts)

\* all tools failed, some because they were missing and some while converting
C8_Witness ==
    /\ CallFailed /\ result = "FailedConversionError"
    /\ \E k \in 1..Len(attempts) : attempts[k].outcome = "NotFound" /\ attempts[k].kind = "user"
    /\ \E k \in 1..Len(attempts) : attempts[k].outcome = "Failed"
    /\ \E k \in 1..Len(attempts) : attempts[k].outcome = "ImportError"

\* exactly one tool path was passed, and it does not resolve
OneBadOverride ==
    \E f \in DOMAIN args :
        /\ args[f] = "/bad"
        /\ \A g \in DOMAIN args : g # f => args[g] = None

\* C9 (as claimed): a failed call with exactly one path passed, which does not
\* resolve, and no other converter available raises FailedConversionError, whose
\* text says that the tool was not found.
C9_BadOverrideIsConversionFailed ==
    (CallFailed /\ OneBadOverride /\ \A k \in 1..Len(attempts) : Unavailable(k)) =>
        /\ result = "FailedConversionError"
        /\ \E i \in 1..Len(err_text) :
              /\ IsEntry(err_text[i])
              /\ err_text[i][Len(err_text[i])] = " not found"

\* C10 (as claimed): whichever error a failed call raises, its text has one
\* entry per attempt, in order, naming the tool and the reason.
C10_ErrorEnumeratesAttempts ==
    CallFailed => Enumerates(err_text, attempts)

(***************************************************************************)
(* Properties of a build: failures, and the variant set as a set of values.*)
(***************************************************************************)
\* C11 (as claimed): no exception leaves visit_image, and an image whose
\* planning failed keeps the <img> tag old_visit_image wrote.
C11_FailureConfined ==
    /\ raised = "none"
    /\ (visits >= 1 /\ node.ext \in RasterExts /\ config.width_step = 0) => body.tag = "img"
    /\ visits < doc_nodes => CanVisit

\* C17: no two variants of one source share width and destination format, and a
\* call of visit_image for the source of the call before leaves img_datas as it was.
C17_KeyedByValue ==
    /\ [](\A d, e \in img_datas :
             (d.src_path = e.src_path /\ d.width = e.width
                /\ d.dest_path.ext = e.dest_path.ext) => d = e)
    /\ [][(visits' = visits + 1 /\ revisit') => img_datas' = img_datas]_vars

\* the same png or jpg was visited twice in a row and has several variants
C17_Witness ==
    /\ revisit /\ visits >= 2 /\ PlannedRaster
    /\ \E d, e \in img_datas : d.src_path = e.src_path /\ d.width # e.width

(***************************************************************************)
(* Properties of process_images and process_image.                         *)
(***************************************************************************)
\* process_images has ended, by returning or by an exception
Ended == proc \in {"done", "raised"}

\* the variants process_image was called for and did not raise on
Returned == processed \ failed

FileOf(d) == {f \in files : f.path = d.dest_path}

\* C12 (as claimed): when process_images has ended, every variant other than
\* the ones whose render failed has been taken by process_image.
C12_SiblingsRendered == Ended => (img_datas \ failed) \subseteq processed

\* C13 (as claimed): for a png source that carries a niVI chunk, a variant has a
\* file iff its destination is png, and the file has the chunk's data after the
\* image data; a source without the chunk has a file for every destination.
C13_PayloadRule ==
    \A d \in Returned :
        IF ViSnippetData(d) # None
        THEN /\ (FileOf(d) # {}) <=> (d.dest_path.ext = ".png")
             /\ \A f \in FileOf(d) :
                   f.chunks = {[type |-> "niVI", data |-> ViSnippetData(d),
                                after_idat |-> TRUE]}
        ELSE \E f \in FileOf(d) : f.chunks = {}

\* C13 (amended): the rule holds for a niVI chunk with data of non-zero length; a
\* source without the chunk, or with a chunk of length zero, has a file without
\* the chunk for every destination.
C13_PayloadRuleNonEmpty ==
    \A d \in Returned :
        IF ViSnippetData(d) \notin {None, "empty"}
        THEN /\ (FileOf(d) # {}) <=> (d.dest_path.ext = ".png")
             /\ \A f \in FileOf(d) :
                   f.chunks = {[type |-> "niVI", data |-> ViSnippetData(d),
                                after_idat |-> TRUE]}
        ELSE \E f \in FileOf(d) : f.chunks = {}

\* process_images returned for a png with chunk data: its png variants have
\* files with the chunk, its webp variants were taken and have none
C13_Witness ==
    /\ proc = "done"
    /\ \E d, e \in Returned :
          /\ d.src_path = e.src_path /\ ViSnippetData(d) = "data"
          /\ d.dest_path.ext = ".png" /\ FileOf(d) # {}
          /\ e.dest_path.ext = ".webp" /\ FileOf(e) = {}

\* process_images returned for a png whose niVI chunk has length zero
C13_WitnessEmpty ==
    /\ proc = "done"
    /\ \E d \in Returned : ViSnippetData(d) = "empty" /\ d.dest_path.ext = ".webp"

\* C14 (as claimed): a png source with chunk data, rendered to another format,
\* gives a file without the chunk, and no error.
C14_OtherFormatsRendered ==
    \A d \in Returned :
        (ViSnippetData(d) = "data" /\ d.dest_path.ext # ".png")
            => \E f \in FileOf(d) : f.chunks = {}

\* the candidate URIs of the srcset attributes of the emitted markup
Advertised ==
    IF body.tag = "picture" /\ node.ext \in RasterExts
    THEN {body.sources[1].srcset[i].uri : i \in 1..Len(body.sources[1].srcset)}
         \cup {body.img.srcset[i].uri : i \in 1..Len(body.img.srcset)}
    ELSE {}

\* C19 (as claimed): once process_images has returned, every URI of a srcset
\* names a file that was rendered.
C19_AdvertisedRendered == proc = "done" => Advertised \subseteq {f.path : f \in files}

\* C20 (as claimed): with width_min >= 1 and width_step > 0 every variant of the
\* set has width >= 1 and height >= 1.
C20_PositiveDimensions ==
    (config.width_min >= 1 /\ config.width_step > 0)
        => \A d \in img_datas : d.width >= 1 /\ d.height >= 1

(***************************************************************************)
(* The sizes attribute.                                                    *)
(***************************************************************************)
MaxViewport == 3   \* viewport widths 0..MaxViewport, and the default maximum

Viewports == (0..MaxViewport) \cup {DefaultMaxViewportWidth, DefaultMaxViewportWidth + 1}

\* the sizes expression as the claim has it, with the height branch
ClaimedSizes(n, cfg) ==
    IF n.width # None THEN <<"min(", n.width, "px, 100vw)">>
    ELSE IF n.height # None THEN <<"(", n.height, " * ", n.size[1], " / ", n.size[2], ")px">>
    ELSE <<"min(min(", n.size[1], "px, 100vw), ", cfg.max_viewport_width, "px)">>

\* what a browser computes from "min(min(<a>px, 100vw), <b>px)" at viewport width vw
EvalDefaultSizes(sizes, vw) == Min(Min(sizes[2], vw), sizes[4])

\* C18 (as claimed): every png or jpg planned with a step other than 0 gets a
\* <picture> whose <source> and <img> carry the sizes expression of the
\* precedence width, height, default; the default never exceeds the native
\* width, the viewport width or max_viewport_width.
C18_SizesPrecedence ==
    (visits >= 1 /\ ~node.remote /\ node.ext \in RasterExts /\ config.width_step # 0)
        => /\ body.tag = "picture"
           /\ body.img.sizes = ClaimedSizes(node, config)
           /\ body.sources[1].sizes = ClaimedSizes(node, config)
           /\ (node.width = None /\ node.height = None)
                 => \A vw \in Viewports :
                       LET v == EvalDefaultSizes(body.img.sizes, vw)
                       IN v <= node.size[1] /\ v <= vw /\ v <= config.max_viewport_width

(***************************************************************************)
(* The cache of the host configuration.                                    *)
(***************************************************************************)
\* C15: the detection of lines 306-315 fills the cache at most once; once
\* SPHINX_FOUND is set no step runs it again or changes a cached path, the
\* cache holds the application's two values, and every attempt of kind
\* "sphinx" ran on the cached path.
C15_PopulatedOnce ==
    /\ [](/\ lookups <= 1
          /\ SPHINX_FOUND =>
                /\ lookups = 1
                /\ SPHINX_INKSCAPE_CONVERTER_BIN = sphinx_app.inkscape_converter_bin
                /\ SPHINX_RSVG_CONVERTER_BIN = sphinx_app.rsvg_converter_bin
          /\ \A k \in 1..Len(attempts) :
                attempts[k].kind = "sphinx" =>
                   attempts[k].path = IF attempts[k].title = "Inkscape"
                                      THEN SPHINX_INKSCAPE_CONVERTER_BIN
                                      ELSE SPHINX_RSVG_CONVERTER_BIN)
    /\ [][SPHINX_FOUND => (UNCHANGED cacheVars /\ lookups' = lookups)]_vars

\* a later call arrives at line 306 with the application found by an earlier
\* one, and a path cached
C15_Witness ==
    /\ calls >= 2 /\ pc = "lookup"
    /\ SPHINX_FOUND /\ lookups = 1
    /\ SPHINX_INKSCAPE_CONVERTER_BIN # None

\* global x has been assigned by some thread's detection
Written(x) ==
    \E t \in Threads : \E i \in 1..(tloc[t].w - 1) : LookupWrites[i] = x

\* C16: whatever the interleaving, a cached path is None or the application's
\* value, SPHINX_FOUND is set only after both paths were written, and the paths
\* a thread reads in the host-configured blocks are the application's.
C16_BenignRace ==
    /\ SPHINX_INKSCAPE_CONVERTER_BIN \in {None, sphinx_app.inkscape_converter_bin}
    /\ SPHINX_RSVG_CONVERTER_BIN \in {None, sphinx_app.rsvg_converter_bin}
    /\ SPHINX_FOUND =>
          /\ Written("ink") /\ Written("rsvg")
          /\ SPHINX_INKSCAPE_CONVERTER_BIN = sphinx_app.inkscape_converter_bin
          /\ SPHINX_RSVG_CONVERTER_BIN = sphinx_app.rsvg_converter_bin
    /\ \A t \in Threads :
          /\ tloc[t].ink \in {"unread", sphinx_app.inkscape_converter_bin}
          /\ tloc[t].rsvg \in {"unread", sphinx_app.rsvg_converter_bin}

\* two threads both ran the detection, and both read the configured paths
C16_Witness ==
    /\ lookups >= 2
    /\ \E t, u \in Threads :
          /\ t # u /\ tpc[t] = "done" /\ tpc[u] = "done"
          /\ tloc[t].ink = "/bad" /\ tloc[u].ink = "/bad"
          /\ tloc[t].rsvg = "/good" /\ tloc[u].rsvg = "/good"

====
